---- MODULE Spec2Model ----
(***************************************************************************)
(* Adaptive path selection in a software-defined network.                  *)
(*                                                                         *)
(* Two programs are modelled:                                              *)
(*   - the control-plane process of traffic_engineering_controller.py      *)
(*     (device registry, Stats Store, poll loop, REST gateway), together   *)
(*     with the switches it talks to (OpenFlow channel state, outstanding  *)
(*     stats requests, flow tables);                                       *)
(*   - the Q-learning agent of drl_agent.py (episode loop, QTable, epsilon,*)
(*     baseline counters), together with the answers the gateway can give. *)
(*                                                                         *)
(* Spec      is the controller with its switches and REST clients.         *)
(* AgentSpec is the agent against every answer the gateway can give.       *)
(* EpsSpec   is the agent's full 1000-iteration run on an idle network.    *)
(* EpisodeSpec is the agent's first iteration on counters around the       *)
(*           limits of the traffic levels.                                 *)
(* RuleLiveSpec is the controller with switches that enforce hard timeouts.*)
(***************************************************************************)
EXTENDS Integers, Sequences, FiniteSets, TLC

(***************************************************************************)
(* Bounds of the model.                                                    *)
(***************************************************************************)
\* switches that exist in the network
DeviceIds == {1, 2}
\* device ids a REST client may name (3 is never a switch)
RequestDpids == {1, 2, 3}
\* outstanding port-stats requests a switch keeps
MaxPending == 1
\* distinct port-stats reply bodies a switch can produce
NumBodies == 2
\* action entries of an install-reroute request in RerouteSpec
MaxActions == 2

(***************************************************************************)
(* Program constants.                                                      *)
(***************************************************************************)
SWITCH_DPID == 1
PORT_A == 2
PORT_B == 3
HOST_IN_PORT == 1
HOST_DST_IP == "10.0.0.2"
ETH_TYPE_IP == 2048
AGENT_PRIORITY == 100
REROUTE_HARD_TIMEOUT == 10
DEFAULT_HARD_TIMEOUT == 0
TABLE_MISS_PRIORITY == 0
\* ofproto.OFPP_CONTROLLER = 0xfffffffd, as a signed 32-bit integer
OFPP_CONTROLLER == -3

VARIABLES
    dpState,     \* OpenFlow channel of each switch: "closed", "config", "main"
    datapaths,   \* keys of TrafficEngineeringController.datapaths
    port_stats,  \* TrafficEngineeringController.port_stats: dpid -> snapshot
    flow_stats,  \* TrafficEngineeringController.flow_stats: dpid -> snapshot
    portReq,     \* port-stats requests sent to a switch and not yet answered
    flows,       \* flow table of each switch
    monPc,       \* position of the _monitor thread: "loop", "iter", "dead"
    monTodo,     \* datapaths the running poll cycle has still to visit
    monSize,     \* size of the registry when the running poll cycle began
    resp,        \* the response of the gateway, if the last step was a request
    pc,             \* position of the agent in main()
    e,              \* loop variable of the episode loop
    epsilon,        \* agent.epsilon, in units of 1/EpsScale
    q_table,        \* agent.q_table: the stored states and their score vectors
    last_port_tx,   \* baseline counters carried between episodes
    current_port_tx,\* counters of the first read of the running episode
    state,          \* State observed by the first read
    action,         \* Action chosen for the running episode
    request,        \* the install-reroute request sent in the running episode
    iter,           \* what happened in the running (or just ended) iteration
    written,        \* the cells (state, action) learn has assigned so far
    run,            \* calls of learn and voided iterations since main began
    switches,        \* keys of StaticPathController.switches
    static_mac_to_port, \* StaticPathController.mac_to_port
    paths_installed, \* StaticPathController.paths_installed
    static_flows,    \* flow table of each switch of the static path controller
    connects,        \* connect events the static path controller has handled
    install_calls,   \* the calls of install_static_paths, in order
    pkt_count,       \* SimpleSwitch13Monitor.pkt_count: key -> 'in' and 'out'
    mac_to_port,     \* SimpleSwitch13Monitor.mac_to_port: key -> MAC -> port
    l2_flows,        \* flow table of each switch of the monitoring switch app
    handler,         \* the packet-in handler that is in send_msg, if any
    timerPc,         \* position of monitor(): "wait", "scan", "read", "dead"
    timerTodo,       \* keys the running monitor() has still to report
    timerSize,       \* size of pkt_count when the running monitor() began
    sent,            \* the locals dpid and sent of monitor()
    last_report      \* the line monitor() logged last

ctlVars == <<dpState, datapaths, port_stats, flow_stats, portReq, flows,
             monPc, monTodo, monSize, resp>>

agentVars == <<pc, e, epsilon, q_table, last_port_tx, current_port_tx, state,
               action, request, iter, written, run>>

staticVars == <<switches, static_mac_to_port, paths_installed, static_flows,
                connects, install_calls>>

monitorVars == <<pkt_count, mac_to_port, l2_flows, handler, timerPc,
                 timerTodo, timerSize, sent, last_report>>

\* the other applications of the repository
appVars == <<staticVars, monitorVars>>

vars == <<ctlVars, agentVars, appVars>>

(***************************************************************************)
(* Dictionaries.                                                           *)
(***************************************************************************)
EmptyDict == <<>>

\* d[k] = v
DictSet(d, k, v) == [x \in (DOMAIN d) \cup {k} |-> IF x = k THEN v ELSE d[x]]

\* d.setdefault(k, v)
SetDefault(d, k, v) == IF k \in DOMAIN d THEN d ELSE DictSet(d, k, v)

(***************************************************************************)
(* Port statistics.                                                        *)
(***************************************************************************)
PortRecord(p, tx) == [port_no |-> p, tx_bytes |-> tx]

\* a reply body: one record per monitored port
PortBody(a, b) == <<PortRecord(PORT_A, a), PortRecord(PORT_B, b)>>

\* The bodies switch d answers with.  Both records of one body carry the same
\* counter and no two switches share a counter, so a snapshot mixed from two
\* replies, or taken from another switch, is none of them.
ReplyBodies(d) == {PortBody(10 * d + k, 10 * d + k) : k \in 1..NumBodies}

(***************************************************************************)
(* Flow rules.                                                             *)
(***************************************************************************)
\* parser.OFPMatch(): no field
EmptyMatch == <<>>

\* the match fields parser.OFPMatch(**match_fields) accepts, as far as the
\* requests of this model use them; any other keyword raises
OxmFields == {"in_port", "eth_type", "ipv4_dst"}

MatchAccepted(match_fields) == DOMAIN match_fields \subseteq OxmFields

OutputAction(p) == [type |-> "OUTPUT", port |-> p]

Rule(priority, match, actions, hard_timeout) ==
    [priority |-> priority, match |-> match, actions |-> actions,
     hard_timeout |-> hard_timeout]

\* what the switch checks before it adds a rule: a match on ipv4_dst needs
\* eth_type = 0x0800 (OpenFlow 1.3 match prerequisites).  A rule that fails
\* the check is answered with an error message and not added.
SwitchAccepts(match) ==
    "ipv4_dst" \in DOMAIN match =>
        ("eth_type" \in DOMAIN match /\ match.eth_type = ETH_TYPE_IP)

\* datapath.send_msg(OFPFlowMod(...)): the switch adds the rule, replacing
\* the rule of the same priority and match; a closed channel drops it, and
\* the switch drops a rule it rejects.
AddFlow(fl, st, d, priority, match, actions, hard_timeout) ==
    IF st[d] = "closed" \/ ~SwitchAccepts(match) THEN fl
    ELSE [fl EXCEPT ![d] =
            {r \in @ : ~(r.priority = priority /\ r.match = match)}
            \cup {Rule(priority, match, actions, hard_timeout)}]

TableMissRule ==
    Rule(TABLE_MISS_PRIORITY, EmptyMatch, <<OutputAction(OFPP_CONTROLLER)>>,
         DEFAULT_HARD_TIMEOUT)

(***************************************************************************)
(* Agent side of install-reroute: the request execute_action builds.       *)
(***************************************************************************)
AgentMatch ==
    [in_port |-> HOST_IN_PORT, eth_type |-> ETH_TYPE_IP,
     ipv4_dst |-> HOST_DST_IP]

\* port_to_use = PORT_A if action == 0 else PORT_B
PortOfAction(a) == IF a = 0 THEN PORT_A ELSE PORT_B

\* a request whose priority differs from one action to the other
FlowRulePerAction(a) ==
    [dpid |-> SWITCH_DPID, priority |-> AGENT_PRIORITY + a,
     match |-> AgentMatch, actions |-> <<OutputAction(PortOfAction(a))>>]

\* flow_rule of execute_action(a)
FlowRule(a) ==
    [dpid |-> SWITCH_DPID, priority |-> AGENT_PRIORITY, match |-> AgentMatch,
     actions |-> <<OutputAction(PortOfAction(a))>>]

(***************************************************************************)
(* Install-reroute requests the gateway receives in Spec: for the monitored *)
(* switch the two requests of the agent, a request with a match field      *)
(* OFPMatch rejects, a request whose match the switch rejects and a request *)
(* whose only action is not an OUTPUT; for the other device ids the first  *)
(* request of the agent.                                                   *)
(***************************************************************************)
BadMatch == [in_port |-> HOST_IN_PORT, nw_dst |-> HOST_DST_IP]

\* OFPMatch takes it, the switch does not: ipv4_dst without eth_type
NoPrereqMatch == [ipv4_dst |-> HOST_DST_IP]

RequestShapes ==
    {FlowRule(0), FlowRule(1),
     [FlowRule(0) EXCEPT !.match = BadMatch],
     [FlowRule(0) EXCEPT !.match = NoPrereqMatch],
     [FlowRule(0) EXCEPT !.actions = <<[type |-> "DROP", port |-> PORT_A]>>]}

RerouteRequests ==
    RequestShapes \cup {[FlowRule(0) EXCEPT !.dpid = d] : d \in RequestDpids}

\* action entries a client can send: the two OUTPUT entries of the agent and
\* two entries of another type
ActionEntries ==
    {OutputAction(PORT_A), OutputAction(PORT_B),
     [type |-> "DROP", port |-> PORT_A],
     [type |-> "SET_QUEUE", port |-> PORT_B]}

\* the action lists of 1 to MaxActions entries
ActionLists ==
    UNION {[1..n -> ActionEntries] : n \in 1..MaxActions}

\* the request of the agent with each of these action lists, for each switch
ActionRequests ==
    {[FlowRule(0) EXCEPT !.dpid = d, !.actions = l] :
        d \in DeviceIds, l \in ActionLists}

(***************************************************************************)
(* Responses of the gateway.                                               *)
(***************************************************************************)
NoResponse == [op |-> "none", status |-> 0, json |-> <<>>, mods |-> 0]

\* Response(json=port_stats): JSON object keys are strings
NetworkStateJson(ps) ==
    [k \in {ToString(d) : d \in DOMAIN ps} |->
        ps[CHOOSE d \in DOMAIN ps : ToString(d) = k]]

NetworkStateResponse(ps) ==
    [op |-> "network_state", status |-> 200, json |-> NetworkStateJson(ps),
     mods |-> 0]

\* mods: the flow-mods sent while the request was handled
RerouteResponse(status, text, mods) ==
    [op |-> "reroute_flow", status |-> status, json |-> text, mods |-> mods]

\* the OUTPUT actions of a request, in order
RECURSIVE OutputActions(_)
OutputActions(action_fields) ==
    IF action_fields = <<>> THEN <<>>
    ELSE IF Head(action_fields).type = "OUTPUT"
         THEN <<OutputAction(Head(action_fields).port)>>
              \o OutputActions(Tail(action_fields))
         ELSE OutputActions(Tail(action_fields))

(***************************************************************************)
(* Initial state: the controller is constructed, no switch has connected.  *)
(***************************************************************************)
CtlInit ==
    /\ dpState = [d \in DeviceIds |-> "closed"]
    /\ datapaths = {}
    /\ port_stats = EmptyDict
    /\ flow_stats = EmptyDict
    /\ portReq = [d \in DeviceIds |-> 0]
    /\ flows = [d \in DeviceIds |-> {}]
    /\ monPc = "loop"
    /\ monTodo = {}
    /\ monSize = 0
    /\ resp = NoResponse

(***************************************************************************)
(* Device lifecycle.                                                       *)
(***************************************************************************)
\* switch_features_handler: the switch has connected and sent its features
SwitchFeatures(d) ==
    /\ dpState[d] = "closed"
    /\ dpState' = [dpState EXCEPT ![d] = "config"]
    /\ datapaths' = datapaths \cup {d}
    /\ port_stats' = SetDefault(port_stats, d, EmptyDict)
    /\ flow_stats' = SetDefault(flow_stats, d, EmptyDict)
    /\ flows' = AddFlow(flows, dpState', d, TABLE_MISS_PRIORITY, EmptyMatch,
                        <<OutputAction(OFPP_CONTROLLER)>>, DEFAULT_HARD_TIMEOUT)
    /\ UNCHANGED <<portReq, monPc, monTodo, monSize>>
    /\ resp' = NoResponse
    /\ UNCHANGED <<agentVars, appVars>>

\* _state_change_handler, ev.state == MAIN_DISPATCHER
StateChangeMain(d) ==
    /\ dpState[d] = "config"
    /\ dpState' = [dpState EXCEPT ![d] = "main"]
    /\ datapaths' = IF d \notin datapaths THEN datapaths \cup {d} ELSE datapaths
    /\ UNCHANGED <<port_stats, flow_stats, portReq, flows, monPc, monTodo,
                   monSize>>
    /\ resp' = NoResponse
    /\ UNCHANGED <<agentVars, appVars>>

\* _state_change_handler, ev.state == DEAD_DISPATCHER: the channel is closed,
\* what was in flight on it is lost
StateChangeDead(d) ==
    /\ dpState[d] # "closed"
    /\ dpState' = [dpState EXCEPT ![d] = "closed"]
    /\ datapaths' = IF d \in datapaths THEN datapaths \ {d} ELSE datapaths
    /\ portReq' = [portReq EXCEPT ![d] = 0]
    /\ UNCHANGED <<port_stats, flow_stats, flows, monPc, monTodo, monSize>>
    /\ resp' = NoResponse
    /\ UNCHANGED <<agentVars, appVars>>

\* a rule with a hard timeout leaves the switch when the timeout is over
RuleExpires(d, r) ==
    /\ r \in flows[d]
    /\ r.hard_timeout > 0
    /\ flows' = [flows EXCEPT ![d] = @ \ {r}]
    /\ UNCHANGED <<dpState, datapaths, port_stats, flow_stats, portReq,
                   monPc, monTodo, monSize>>
    /\ resp' = NoResponse
    /\ UNCHANGED <<agentVars, appVars>>

(***************************************************************************)
(* Telemetry collector.                                                    *)
(***************************************************************************)
Min(a, b) == IF a < b THEN a ELSE b

\* _request_stats(dp) for the next datapath of the cycle: the requests go out
\* on dp's channel, a closed channel drops them
RequestStats(pr, st, d) ==
    IF st[d] = "closed" THEN pr
    ELSE [pr EXCEPT ![d] = Min(@ + 1, MaxPending)]

\* a poll cycle that begins by dropping the snapshots
MonitorBeginEvicts ==
    /\ monPc = "loop"
    /\ monSize' = Cardinality(datapaths)
    /\ IF datapaths = {}
       THEN UNCHANGED <<monPc, monTodo, portReq>>
       ELSE \E d \in datapaths :
            /\ monPc' = "iter"
            /\ monTodo' = datapaths \ {d}
            /\ portReq' = RequestStats(portReq, dpState, d)
    /\ port_stats' = [d \in DOMAIN port_stats |-> EmptyDict]
    /\ UNCHANGED <<dpState, datapaths, flow_stats, flows>>
    /\ resp' = NoResponse
    /\ UNCHANGED <<agentVars, appVars>>

\* _monitor: a poll cycle starts, for dp in self.datapaths.values().  The
\* iterator is made and hands out the first datapath in one go: no handler
\* runs before the thread is in _request_stats for that datapath.  A cycle
\* over an empty registry is over at once.
MonitorBegin ==
    /\ monPc = "loop"
    /\ monSize' = Cardinality(datapaths)
    /\ IF datapaths = {}
       THEN UNCHANGED <<monPc, monTodo, portReq>>
       ELSE \E d \in datapaths :
            /\ monPc' = "iter"
            /\ monTodo' = datapaths \ {d}
            /\ portReq' = RequestStats(portReq, dpState, d)
    /\ UNCHANGED <<dpState, datapaths, port_stats, flow_stats, flows>>
    /\ resp' = NoResponse
    /\ UNCHANGED <<agentVars, appVars>>

\* the iteration of _monitor asks for the next datapath, after the thread
\* was in _request_stats, where send_msg can let the handlers run.  The
\* dictionary iterator raises RuntimeError when the registry changed size
\* since the cycle began: the thread ends.  After the last datapath the
\* thread sleeps and loops.
MonitorStep ==
    /\ monPc = "iter"
    /\ IF Cardinality(datapaths) # monSize
       THEN /\ monPc' = "dead"
            /\ monTodo' = {}
            /\ UNCHANGED portReq
       ELSE IF monTodo = {}
       THEN /\ monPc' = "loop"
            /\ UNCHANGED <<monTodo, portReq>>
       ELSE \E d \in monTodo :
            /\ portReq' = RequestStats(portReq, dpState, d)
            /\ monTodo' = monTodo \ {d}
            /\ UNCHANGED monPc
    /\ UNCHANGED <<dpState, datapaths, port_stats, flow_stats, flows, monSize>>
    /\ resp' = NoResponse
    /\ UNCHANGED <<agentVars, appVars>>

\* a store that starts a new dictionary with each reply
StorePortStatsAlone(ps, d, body) == DictSet(EmptyDict, d, body)

\* a store that updates the records of the snapshot one poll at a time
StorePortStatsInPlace(ps, d, body) ==
    IF d \in DOMAIN ps /\ Len(ps[d]) = Len(body) /\ Len(body) > 1
    THEN DictSet(ps, d, <<body[1]>> \o Tail(ps[d]))
    ELSE DictSet(ps, d, body)

\* self.port_stats[dpid] = body
StorePortStats(ps, d, body) == DictSet(ps, d, body)

\* _port_stats_reply_handler: switch d answers a request, the event is
\* dispatched while d is in MAIN_DISPATCHER
PortStatsReply(d, body) ==
    /\ dpState[d] = "main"
    /\ portReq[d] > 0
    /\ portReq' = [portReq EXCEPT ![d] = @ - 1]
    /\ port_stats' = StorePortStats(port_stats, d, body)
    /\ UNCHANGED <<dpState, datapaths, flow_stats, flows, monPc, monTodo,
                   monSize>>
    /\ resp' = NoResponse
    /\ UNCHANGED <<agentVars, appVars>>

(***************************************************************************)
(* Control gateway.                                                        *)
(***************************************************************************)
\* a read that waits until every stats request has been answered
GetNetworkStateFresh ==
    /\ \A d \in DeviceIds : portReq[d] = 0
    /\ resp' = NetworkStateResponse(port_stats)
    /\ UNCHANGED <<dpState, datapaths, port_stats, flow_stats, portReq, flows,
                   monPc, monTodo, monSize>>
    /\ UNCHANGED <<agentVars, appVars>>

\* RestController.get_network_state
GetNetworkState ==
    /\ resp' = NetworkStateResponse(port_stats)
    /\ UNCHANGED <<dpState, datapaths, port_stats, flow_stats, portReq, flows,
                   monPc, monTodo, monSize>>
    /\ UNCHANGED <<agentVars, appVars>>

\* a lookup that takes the Stats Store for the registry
DatapathFoundInStats(dps, dpid) == dpid \in DOMAIN port_stats

\* self.controller_app.datapaths.get(dpid)
DatapathFound(dps, dpid) == dpid \in dps

\* an install that leaves the timeout at add_flow's default
RerouteInstallForever(fl, st, q) ==
    AddFlow(fl, st, q.dpid, q.priority, q.match, OutputActions(q.actions),
            DEFAULT_HARD_TIMEOUT)

\* the flow table after reroute_flow installed the rule of request q
RerouteInstall(fl, st, q) ==
    AddFlow(fl, st, q.dpid, q.priority, q.match, OutputActions(q.actions),
            REROUTE_HARD_TIMEOUT)

\* a reroute_flow that refuses a request with an entry that is not an OUTPUT
RerouteFlowStrict(q) ==
    /\ IF ~DatapathFound(datapaths, q.dpid)
       THEN /\ resp' = RerouteResponse(404, "Datapath not found.", 0)
            /\ UNCHANGED flows
       ELSE IF ~MatchAccepted(q.match)
               \/ \E i \in DOMAIN q.actions : q.actions[i].type # "OUTPUT"
       THEN /\ resp' = RerouteResponse(500, "exception", 0)
            /\ UNCHANGED flows
       ELSE /\ flows' = RerouteInstall(flows, dpState, q)
            /\ resp' = RerouteResponse(200, "Flow rule added.", 1)
    /\ UNCHANGED <<dpState, datapaths, port_stats, flow_stats, portReq,
                   monPc, monTodo, monSize>>
    /\ UNCHANGED <<agentVars, appVars>>

\* RestController.reroute_flow
RerouteFlow(q) ==
    /\ IF ~DatapathFound(datapaths, q.dpid)
       THEN /\ resp' = RerouteResponse(404, "Datapath not found.", 0)
            /\ UNCHANGED flows
       ELSE IF ~MatchAccepted(q.match)
       THEN /\ resp' = RerouteResponse(500, "exception", 0)
            /\ UNCHANGED flows
       ELSE /\ flows' = RerouteInstall(flows, dpState, q)
            /\ resp' = RerouteResponse(200, "Flow rule added.", 1)
    /\ UNCHANGED <<dpState, datapaths, port_stats, flow_stats, portReq,
                   monPc, monTodo, monSize>>
    /\ UNCHANGED <<agentVars, appVars>>

CtlNext ==
    \/ \E d \in DeviceIds : SwitchFeatures(d)
    \/ \E d \in DeviceIds : StateChangeMain(d)
    \/ \E d \in DeviceIds : StateChangeDead(d)
    \/ \E d \in DeviceIds : \E r \in flows[d] : RuleExpires(d, r)
    \/ MonitorBegin
    \/ MonitorStep
    \/ \E d \in DeviceIds : \E body \in ReplyBodies(d) : PortStatsReply(d, body)
    \/ GetNetworkState
    \/ \E q \in RerouteRequests : RerouteFlow(q)

(***************************************************************************)
(* Q-learning agent: configuration.                                        *)
(***************************************************************************)
ACTION_SIZE == 2
\* LEARNING_RATE = 0.1 and GAMMA = 0.9 as fractions
LEARNING_RATE_NUM == 1
LEARNING_RATE_DEN == 10
GAMMA_NUM == 9
GAMMA_DEN == 10
\* epsilon is kept in units of 1/EpsScale: EPSILON_START = 1.0,
\* EPSILON_END = 0.01, EPSILON_DECAY = 0.995 = 1 - 1/EPSILON_DECAY_INV
EpsScale == 10^9
EPSILON_START == EpsScale
EPSILON_END == EpsScale \div 100
EPSILON_DECAY_INV == 200
\* scores are kept in units of 1/QScale byte
QScale == 10^3
\* thresholds of get_traffic_level
LOW_LIMIT == 100000
MEDIUM_LIMIT == 1000000
\* for e in range(1, 1001)
FIRST_EPISODE == 1
EPISODES == 1000
\* if e % 20 == 0
PUSH_EVERY == 20

\* iterations of the episode loop explored in AgentSpec
MaxEpisodes == 2
\* iterations of the episode loop explored in LearnSpec
LearnEpisodes == 3
\* failed reads of the episode loop in RunSpec
MaxVoided == 2
\* connect events the static path controller handles in StaticSpec
MaxConnects == 10
\* Ethernet frames the monitoring switch handles in MonitorSpec
MaxPackets == 2

Actions == 0..(ACTION_SIZE - 1)
Levels == {"low", "medium", "high"}
States == Levels \X Levels
MonitoredPorts == {PORT_A, PORT_B}

(***************************************************************************)
(* QLearningAgent.                                                         *)
(***************************************************************************)
\* a vector with one score too many
ZerosOneMore == [i \in 1..(ACTION_SIZE + 1) |-> 0]

\* np.zeros(self.action_size)
Zeros == [i \in 1..ACTION_SIZE |-> 0]

\* a default factory that hands out a vector of ones
QInsertOnes(q, s) ==
    IF s \in DOMAIN q THEN q ELSE DictSet(q, s, [i \in 1..ACTION_SIZE |-> 1])

\* the table after the defaultdict has been indexed with s
QInsert(q, s) == IF s \in DOMAIN q THEN q ELSE DictSet(q, s, Zeros)

\* self.q_table[s]
QGet(q, s) == QInsert(q, s)[s]

\* np.max(v)
MaxOf(v) == CHOOSE x \in {v[i] : i \in DOMAIN v} : \A i \in DOMAIN v : v[i] <= x

\* an argmax that counts from 1
ArgMaxFromOne(v) ==
    CHOOSE i \in DOMAIN v :
        /\ \A j \in DOMAIN v : v[j] <= v[i]
        /\ \A j \in DOMAIN v : j < i => v[j] < v[i]

\* an argmax that returns the last index of the maximum
ArgMaxLast(v) ==
    (CHOOSE i \in DOMAIN v :
        /\ \A j \in DOMAIN v : v[j] <= v[i]
        /\ \A j \in DOMAIN v : j > i => v[j] < v[i]) - 1

\* np.argmax(v): the first index of the maximum, counted from 0
ArgMax(v) ==
    (CHOOSE i \in DOMAIN v :
        /\ \A j \in DOMAIN v : v[j] <= v[i]
        /\ \A j \in DOMAIN v : j < i => v[j] < v[i]) - 1

\* the outcomes of act(state): the action returned and the table afterwards.
\* np.random.rand() is in [0, 1): the explore branch can always be taken, the
\* exploit branch only when epsilon < 1.
\* mode tells the branch that was taken.
ActOutcomes(q, eps, s) ==
    {[action |-> a, q_table |-> q, mode |-> "explore"] : a \in Actions}
    \cup (IF eps < EpsScale
          THEN {[action |-> ArgMax(QGet(q, s)), q_table |-> QInsert(q, s),
                 mode |-> "exploit"]}
          ELSE {})

\* new_q = (1 - lr) * current_q + lr * (reward + gamma * next_max_q)
NewQ(current_q, reward, next_max_q) ==
    (current_q - LEARNING_RATE_NUM * (current_q \div LEARNING_RATE_DEN))
    + LEARNING_RATE_NUM *
        ((reward * QScale + GAMMA_NUM * (next_max_q \div GAMMA_DEN))
         \div LEARNING_RATE_DEN)

\* a learn that stores (1 - lr) * current_q first and takes the maximum from
\* the table it has written to
LearnQStaged(q, s, a, reward, s2) ==
    LET q1 == QInsert(q, s)
        current_q == q1[s][a + 1]
        kept == current_q - LEARNING_RATE_NUM * (current_q \div LEARNING_RATE_DEN)
        q2 == QInsert([q1 EXCEPT ![s][a + 1] = kept], s2)
        next_max_q == MaxOf(q2[s2])
    IN  [q2 EXCEPT ![s][a + 1] = NewQ(current_q, reward, next_max_q)]

\* a learn that assigns the new score to the whole vector of s
LearnQRow(q, s, a, reward, s2) ==
    LET q1 == QInsert(q, s)
        current_q == q1[s][a + 1]
        q2 == QInsert(q1, s2)
        next_max_q == MaxOf(q2[s2])
    IN  [q2 EXCEPT ![s] = [i \in 1..ACTION_SIZE |->
                                NewQ(current_q, reward, next_max_q)]]

\* the table after learn(s, a, reward, s2)
LearnQ(q, s, a, reward, s2) ==
    LET q1 == QInsert(q, s)
        current_q == q1[s][a + 1]
        q2 == QInsert(q1, s2)
        next_max_q == MaxOf(q2[s2])
    IN  [q2 EXCEPT ![s][a + 1] = NewQ(current_q, reward, next_max_q)]

\* if self.epsilon > EPSILON_END: self.epsilon *= EPSILON_DECAY
LearnEpsilon(eps) ==
    IF eps > EPSILON_END THEN eps - (eps \div EPSILON_DECAY_INV) ELSE eps

(***************************************************************************)
(* Telemetry as the agent sees it.                                         *)
(***************************************************************************)
\* get_network_stats(): None after an exception, else response.json()
ReadFailed == [ok |-> FALSE, json |-> <<>>]
ReadOk(json) == [ok |-> TRUE, json |-> json]

\* a test that takes only None for a failed read
FalsyNone(r) == ~r.ok

\* not port_stats
Falsy(r) == ~r.ok \/ DOMAIN r.json = {}

ZeroTx == [p \in MonitoredPorts |-> 0]

\* the loop over s1_stats: the last record of a monitored port wins
RECURSIVE CurrentTx(_, _)
CurrentTx(s1_stats, acc) ==
    IF s1_stats = <<>> THEN acc
    ELSE LET port == Head(s1_stats)
         IN  CurrentTx(Tail(s1_stats),
                       IF port.port_no \in MonitoredPorts
                       THEN [acc EXCEPT ![port.port_no] = port.tx_bytes]
                       ELSE acc)

\* a delta that keeps its sign
ThroughputSigned(current, last) == current - last

\* throughput, clamped at 0
Throughput(current, last) == IF current - last < 0 THEN 0 ELSE current - last

\* levels whose limits belong to the lower level
get_traffic_level_inclusive(throughput) ==
    IF throughput <= LOW_LIMIT THEN "low"
    ELSE IF throughput <= MEDIUM_LIMIT THEN "medium"
    ELSE "high"

get_traffic_level(throughput) ==
    IF throughput < LOW_LIMIT THEN "low"
    ELSE IF throughput < MEDIUM_LIMIT THEN "medium"
    ELSE "high"

\* a discretizer that hands the old baseline back
discretize_state_stale(json, last) ==
    LET key == ToString(SWITCH_DPID)
        s1_stats == IF key \in DOMAIN json THEN json[key] ELSE <<>>
        current == CurrentTx(s1_stats, ZeroTx)
        throughput_A == Throughput(current[PORT_A], last[PORT_A])
        throughput_B == Throughput(current[PORT_B], last[PORT_B])
    IN  [state |-> <<get_traffic_level(throughput_A),
                     get_traffic_level(throughput_B)>>,
         current_port_tx |-> last,
         raw_throughput |-> <<throughput_A, throughput_B>>]

\* discretize_state(port_stats, last_port_tx)
discretize_state(json, last) ==
    LET key == ToString(SWITCH_DPID)
        s1_stats == IF key \in DOMAIN json THEN json[key] ELSE <<>>
        current == CurrentTx(s1_stats, ZeroTx)
        throughput_A == Throughput(current[PORT_A], last[PORT_A])
        throughput_B == Throughput(current[PORT_B], last[PORT_B])
    IN  [state |-> <<get_traffic_level(throughput_A),
                     get_traffic_level(throughput_B)>>,
         current_port_tx |-> current,
         raw_throughput |-> <<throughput_A, throughput_B>>]

\* a reward taken from the smaller throughput
calculate_reward_min(raw_throughput) ==
    -1 * (CHOOSE x \in {raw_throughput[i] : i \in DOMAIN raw_throughput} :
            \A i \in DOMAIN raw_throughput : x <= raw_throughput[i])

\* a reward that is the largest throughput itself
calculate_reward_unsigned(raw_throughput) == MaxOf(raw_throughput)

\* calculate_reward(raw_throughput) = -1 * max(raw_throughput)
calculate_reward(raw_throughput) == -1 * MaxOf(raw_throughput)

(***************************************************************************)
(* What the gateway can answer to the agent.                               *)
(***************************************************************************)
\* counters (port A, port B) of the monitored switch in AgentSpec: between
\* two of them a port moves by 0, 100000, 900000 or 1000000 bytes, or falls
AgentCounters ==
    {<<0, 0>>, <<100000, 0>>, <<1000000, 100000>>, <<1000000, 1000000>>}

\* answers to a read: no answer, the empty mapping, a mapping without the
\* monitored switch, the monitored switch with its empty first snapshot, and
\* the monitored switch with a reply body
AgentReads ==
    {ReadFailed, ReadOk(EmptyDict),
     ReadOk(ToString(2) :> EmptyDict),
     ReadOk(ToString(SWITCH_DPID) :> EmptyDict)}
    \cup {ReadOk(ToString(SWITCH_DPID) :> PortBody(c[1], c[2])) :
            c \in AgentCounters}

\* counters (port A, port B) around the limits of the traffic levels, a
\* counter that falls (80 then 50) and two unequal deltas
BoundaryCounters ==
    {<<0, 0>>, <<50, 50>>, <<80, 80>>, <<99999, 100000>>, <<100000, 99999>>,
     <<999999, 1000000>>, <<1000000, 999999>>, <<200000, 50000>>}

BoundaryReads ==
    {ReadOk(ToString(SWITCH_DPID) :> PortBody(c[1], c[2])) :
        c \in BoundaryCounters}

\* the reads of LearnSpec: port A stands at 0 or at 100000, so an episode
\* can see the same State twice and can repeat a reward
LearnReads ==
    {ReadOk(ToString(SWITCH_DPID) :> PortBody(c, 0)) : c \in {0, LOW_LIMIT}}

\* the reads of an idle network: the counters stand still
IdleReads == {ReadOk(ToString(SWITCH_DPID) :> PortBody(0, 0))}

\* outcome of requests.post + raise_for_status in execute_action: answered
\* 2xx, answered with an error status, or no answer at all
PostResults == {"ok", "error", "raise"}

(***************************************************************************)
(* main(): the episode loop.                                               *)
(***************************************************************************)
NoRequest == <<>>
NoState == <<"low", "low">>

\* what an iteration finds at the loop head: the table, epsilon and the
\* baseline counters
LoopHead(q, eps, last) == [q_table |-> q, epsilon |-> eps, last_port_tx |-> last]

\* nothing has happened yet in the iteration.  read1, read2: outcome of the
\* two reads; learns: calls of learn; post: outcome of the install-reroute
\* request of the iteration; slept: the agent
\* slept its backoff after a failed read; start: what the iteration found at
\* the loop head; raw_throughput, next_raw_throughput, reward: the locals of
\* these names; mode: the branch act took; ports: the monitored ports the
\* first read carried a record of
NoIter ==
    [read1 |-> "none", read2 |-> "none", learns |-> 0, post |-> "none",
     slept |-> FALSE, mode |-> "none", ports |-> {},
     start |-> LoopHead(EmptyDict, EPSILON_START, ZeroTx),
     raw_throughput |-> <<0, 0>>, next_raw_throughput |-> <<0, 0>>,
     reward |-> 0]

AgentInit ==
    /\ pc = "start"
    /\ e = FIRST_EPISODE
    /\ epsilon = EPSILON_START
    /\ q_table = EmptyDict
    /\ last_port_tx = ZeroTx
    /\ current_port_tx = ZeroTx
    /\ state = NoState
    /\ action = 0
    /\ request = NoRequest
    /\ iter = NoIter
    /\ written = {}
    /\ run = [updates |-> 0, voided |-> 0]

\* the agent after a call of learn; calls counts the calls of the iteration
learn(q, eps, calls, s, a, reward, s2) ==
    [q_table |-> LearnQ(q, s, a, reward, s2),
     epsilon |-> LearnEpsilon(eps),
     calls |-> calls + 1]

\* the locals of an iteration are dead at the loop head
ResetLocals ==
    /\ current_port_tx' = ZeroTx
    /\ state' = NoState
    /\ action' = 0
    /\ request' = NoRequest

\* the monitored ports that have a record under the monitored switch in json
PortsIn(json) ==
    LET key == ToString(SWITCH_DPID)
        s1_stats == IF key \in DOMAIN json THEN json[key] ELSE <<>>
    IN  {s1_stats[i].port_no : i \in DOMAIN s1_stats} \cap MonitoredPorts

\* initial_stats = get_network_stats(); exit, or take the first baseline
Initialize(r) ==
    /\ pc = "start"
    /\ IF Falsy(r)
       THEN /\ pc' = "exit"
            /\ UNCHANGED last_port_tx
       ELSE /\ pc' = "observe"
            /\ last_port_tx' = discretize_state(r.json, ZeroTx).current_port_tx
    /\ UNCHANGED <<e, epsilon, q_table, current_port_tx, state, action,
                   request, iter>>
    /\ UNCHANGED <<written, run>>
    /\ UNCHANGED <<ctlVars, appVars>>

\* a failed first read after which the iteration is made again
FirstReadFailedRetries ==
    /\ e' = e
    /\ pc' = "observe"
    /\ iter' = [NoIter EXCEPT !.read1 = "fail", !.slept = TRUE,
                            !.start = LoopHead(q_table, epsilon, last_port_tx)]
    /\ UNCHANGED <<epsilon, q_table, last_port_tx, current_port_tx, state,
                   action, request>>
    /\ UNCHANGED written
    /\ run' = [run EXCEPT !.voided = @ + 1]

\* first read failed: time.sleep(5); continue
FirstReadFailed ==
    /\ e' = e + 1
    /\ pc' = "observe"
    /\ iter' = [NoIter EXCEPT !.read1 = "fail", !.slept = TRUE,
                            !.start = LoopHead(q_table, epsilon, last_port_tx)]
    /\ UNCHANGED <<epsilon, q_table, last_port_tx, current_port_tx, state,
                   action, request>>
    /\ UNCHANGED written
    /\ run' = [run EXCEPT !.voided = @ + 1]

\* first read answered: discretize_state, agent.act
Decide(r) ==
    LET d == discretize_state(r.json, last_port_tx)
    IN  \E o \in ActOutcomes(q_table, epsilon, d.state) :
            /\ state' = d.state
            /\ current_port_tx' = d.current_port_tx
            /\ action' = o.action
            /\ q_table' = o.q_table
            /\ pc' = "act"
            /\ iter' = [NoIter EXCEPT
                            !.read1 = "ok",
                            !.mode = o.mode,
                            !.ports = PortsIn(r.json),
                            !.start = LoopHead(q_table, epsilon, last_port_tx),
                            !.raw_throughput = d.raw_throughput]
            /\ UNCHANGED <<e, epsilon, last_port_tx, request, written, run>>

\* 1. OBSERVE and 2. DECIDE
Observe(r) ==
    /\ pc = "observe"
    /\ e <= EPISODES
    /\ IF Falsy(r) THEN FirstReadFailed ELSE Decide(r)
    /\ UNCHANGED <<ctlVars, appVars>>

\* an execute_action after which the loop starts over
ExecuteActionStartsOver(res) ==
    /\ pc = "act"
    /\ request' = FlowRule(action)
    /\ iter' = [iter EXCEPT !.post = res]
    /\ pc' = "observe"
    /\ e' = e + 1
    /\ UNCHANGED <<epsilon, q_table, last_port_tx, current_port_tx, state,
                   action>>
    /\ UNCHANGED <<written, run>>
    /\ UNCHANGED <<ctlVars, appVars>>

\* an execute_action whose failure ends the iteration
ExecuteActionVoids(res) ==
    /\ pc = "act"
    /\ request' = FlowRule(action)
    /\ iter' = [iter EXCEPT !.post = res]
    /\ IF res = "ok" THEN pc' = "observe_next" /\ e' = e
                     ELSE pc' = "observe" /\ e' = e + 1
    /\ UNCHANGED <<epsilon, q_table, last_port_tx, current_port_tx, state,
                   action>>
    /\ UNCHANGED <<written, run>>
    /\ UNCHANGED <<ctlVars, appVars>>

\* 3. EXECUTE: execute_action(action), then time.sleep(5)
ExecuteAction(res) ==
    /\ pc = "act"
    /\ request' = FlowRule(action)
    /\ iter' = [iter EXCEPT !.post = res]
    /\ pc' = "observe_next"
    /\ UNCHANGED <<e, epsilon, q_table, last_port_tx, current_port_tx, state,
                   action>>
    /\ UNCHANGED <<written, run>>
    /\ UNCHANGED <<ctlVars, appVars>>

\* a second read failure that still learns, from the state it has
SecondReadFailedLearns ==
    LET l == learn(q_table, epsilon, iter.learns, state, action, 0, state)
    IN  /\ e' = e + 1
        /\ pc' = "observe"
        /\ iter' = [iter EXCEPT !.read2 = "fail",
                                !.learns = l.calls]
        /\ q_table' = l.q_table
        /\ epsilon' = l.epsilon
        /\ written' = written \cup {<<state, action>>}
        /\ run' = [run EXCEPT !.updates = @ + 1]
        /\ ResetLocals
        /\ UNCHANGED last_port_tx

\* second read failed: continue
SecondReadFailed ==
    /\ e' = e + 1
    /\ pc' = "observe"
    /\ iter' = [iter EXCEPT !.read2 = "fail"]
    /\ ResetLocals
    /\ UNCHANGED <<epsilon, q_table, last_port_tx>>
    /\ UNCHANGED written
    /\ run' = [run EXCEPT !.voided = @ + 1]

\* second read answered: discretize_state, calculate_reward, agent.learn,
\* last_port_tx = next_port_tx
CompleteEpisode(r) ==
    LET d == discretize_state(r.json, current_port_tx)
        reward == calculate_reward(d.raw_throughput)
        l == learn(q_table, epsilon, iter.learns, state, action, reward,
                   d.state)
    IN  /\ q_table' = l.q_table
        /\ epsilon' = l.epsilon
        /\ iter' = [iter EXCEPT !.read2 = "ok", !.learns = l.calls,
                                !.next_raw_throughput = d.raw_throughput,
                                !.reward = reward]
        /\ last_port_tx' = d.current_port_tx
        /\ written' = written \cup {<<state, action>>}
        /\ run' = [run EXCEPT !.updates = @ + 1]
        /\ ResetLocals
        /\ IF e % PUSH_EVERY = 0
           THEN pc' = "push" /\ e' = e
           ELSE pc' = "observe" /\ e' = e + 1

\* 4. GET FEEDBACK, 5. CALCULATE REWARD and 6. LEARN
ObserveNext(r) ==
    /\ pc = "observe_next"
    /\ IF Falsy(r) THEN SecondReadFailed ELSE CompleteEpisode(r)
    /\ UNCHANGED <<ctlVars, appVars>>

\* a push whose exception ends the loop
PushQTableFatal(res) ==
    /\ pc = "push"
    /\ IF res = "raise" THEN pc' = "exit" /\ e' = e
                        ELSE pc' = "observe" /\ e' = e + 1
    /\ UNCHANGED <<epsilon, q_table, last_port_tx, current_port_tx, state,
                   action, request, iter>>
    /\ UNCHANGED <<written, run>>
    /\ UNCHANGED <<ctlVars, appVars>>

\* update_controller_q_table(agent): whatever the sink answers is ignored
PushQTable(res) ==
    /\ pc = "push"
    /\ pc' = "observe"
    /\ e' = e + 1
    /\ UNCHANGED <<epsilon, q_table, last_port_tx, current_port_tx, state,
                   action, request, iter>>
    /\ UNCHANGED <<written, run>>
    /\ UNCHANGED <<ctlVars, appVars>>

\* the loop is over, main returns
Finish ==
    /\ pc = "observe"
    /\ e > EPISODES
    /\ pc' = "done"
    /\ UNCHANGED <<e, epsilon, q_table, last_port_tx, current_port_tx, state,
                   action, request, iter>>
    /\ UNCHANGED <<written, run>>
    /\ UNCHANGED <<ctlVars, appVars>>

(***************************************************************************)
(* StaticPathController.                                                   *)
(***************************************************************************)
\* if len(self.switches) == 8
ALL_SWITCHES == 8
\* d1_dpid, c1_dpid, d2_dpid = 257, 1, 513
D1_DPID == 257
C1_DPID == 1
D2_DPID == 513
STATIC_PRIORITY == 10
CSE_SUBNET == "10.0.1.0/24"
ECE_SUBNET == "10.0.2.0/24"

\* the switches that can connect: the three of the static paths and seven
\* others, so that 8 switches can be registered with and without them
StaticSwitches == {D1_DPID, C1_DPID, D2_DPID} \cup (2..8)

StaticInit ==
    /\ switches = {}
    /\ static_mac_to_port = EmptyDict
    /\ paths_installed = FALSE
    /\ static_flows = [d \in StaticSwitches |-> {}]
    /\ connects = 0
    /\ install_calls = <<>>

\* StaticPathController.add_flow: the switch adds the rule, replacing the
\* rule of the same priority and match
StaticAddFlow(fl, d, priority, match, actions) ==
    [fl EXCEPT ![d] =
        {r \in @ : ~(r.priority = priority /\ r.match = match)}
        \cup {Rule(priority, match, actions, DEFAULT_HARD_TIMEOUT)}]

\* not all([d1, c1, d2])
RequiredMissing(sw) == ~({D1_DPID, C1_DPID, D2_DPID} \subseteq sw)

\* the four add_flow calls of install_static_paths
StaticPaths(fl) ==
    LET f1 == StaticAddFlow(fl, D1_DPID, STATIC_PRIORITY,
                  [eth_type |-> ETH_TYPE_IP, ipv4_dst |-> ECE_SUBNET],
                  <<OutputAction(1)>>)
        f2 == StaticAddFlow(f1, C1_DPID, STATIC_PRIORITY,
                  [in_port |-> 2, eth_type |-> ETH_TYPE_IP,
                   ipv4_dst |-> ECE_SUBNET],
                  <<OutputAction(3)>>)
        f3 == StaticAddFlow(f2, D2_DPID, STATIC_PRIORITY,
                  [eth_type |-> ETH_TYPE_IP, ipv4_dst |-> CSE_SUBNET],
                  <<OutputAction(1)>>)
    IN  StaticAddFlow(f3, C1_DPID, STATIC_PRIORITY,
                  [in_port |-> 3, eth_type |-> ETH_TYPE_IP,
                   ipv4_dst |-> CSE_SUBNET],
                  <<OutputAction(2)>>)

\* install_static_paths: the flow tables afterwards
install_static_paths(sw, fl) ==
    IF RequiredMissing(sw) THEN fl ELSE StaticPaths(fl)

\* what a call of install_static_paths leaves in install_calls
InstallCall(sw, at) ==
    [switches |-> sw, at |-> at, installed |-> ~RequiredMissing(sw)]

\* a handler that keeps the flag down after an aborted installation
StaticSwitchFeaturesRetries(d) ==
    /\ connects < MaxConnects
    /\ connects' = connects + 1
    /\ switches' = switches \cup {d}
    /\ static_mac_to_port' = SetDefault(static_mac_to_port, d, EmptyDict)
    /\ LET fl == StaticAddFlow(static_flows, d, TABLE_MISS_PRIORITY,
                               EmptyMatch, <<OutputAction(OFPP_CONTROLLER)>>)
       IN  IF Cardinality(switches') = ALL_SWITCHES /\ ~paths_installed
           THEN /\ static_flows' = install_static_paths(switches', fl)
                /\ install_calls' =
                       Append(install_calls, InstallCall(switches', connects'))
                /\ paths_installed' = ~RequiredMissing(switches')
           ELSE /\ static_flows' = fl
                /\ UNCHANGED <<install_calls, paths_installed>>
    /\ UNCHANGED <<ctlVars, agentVars, monitorVars>>

\* StaticPathController.switch_features_handler for switch d
StaticSwitchFeatures(d) ==
    /\ connects < MaxConnects
    /\ connects' = connects + 1
    /\ switches' = switches \cup {d}
    /\ static_mac_to_port' = SetDefault(static_mac_to_port, d, EmptyDict)
    /\ LET fl == StaticAddFlow(static_flows, d, TABLE_MISS_PRIORITY,
                               EmptyMatch, <<OutputAction(OFPP_CONTROLLER)>>)
       IN  IF Cardinality(switches') = ALL_SWITCHES /\ ~paths_installed
           THEN /\ static_flows' = install_static_paths(switches', fl)
                /\ install_calls' =
                       Append(install_calls, InstallCall(switches', connects'))
                /\ paths_installed' = TRUE
           ELSE /\ static_flows' = fl
                /\ UNCHANGED <<install_calls, paths_installed>>
    /\ UNCHANGED <<ctlVars, agentVars, monitorVars>>

(***************************************************************************)
(* SimpleSwitch13Monitor.                                                  *)
(***************************************************************************)
\* ofproto.OFPP_FLOOD = 0xfffffffb, as a signed 32-bit integer
OFPP_FLOOD == -5
L2_PRIORITY == 1
KEY_WIDTH == 16

\* the switches, hosts and ports of the monitoring switch app
MonitorSwitches == {1, 2}
Macs == {"00:00:00:00:00:01", "00:00:00:00:00:02"}
\* the port of a switch behind which a host is
InPort(mac) == IF mac = "00:00:00:00:00:01" THEN 1 ELSE 2
\* what a packet-in carries: an Ethernet frame, an LLDP frame, or data with
\* no Ethernet header
Frames == {"eth", "lldp", "none"}

\* s.zfill(n)
RECURSIVE zfill(_, _)
zfill(s, n) == IF Len(s) >= n THEN s ELSE zfill("0" \o s, n)

\* format(datapath.id, "d").zfill(16)
DpidKey(d) == zfill(ToString(d), KEY_WIDTH)

NoCount == [in |-> 0, out |-> 0]
NoHandler == [key |-> "", out_port |-> OFPP_FLOOD]
NoReport == [dpid |-> "", sent |-> 0, received |-> 0, loss |-> 0]

MonitorInit ==
    /\ pkt_count = EmptyDict
    /\ mac_to_port = EmptyDict
    /\ l2_flows = [d \in MonitorSwitches |-> {}]
    /\ handler = NoHandler
    /\ timerPc = "wait"
    /\ timerTodo = {}
    /\ timerSize = 0
    /\ sent = NoReport
    /\ last_report = NoReport

\* SimpleSwitch13Monitor.add_flow
L2AddFlow(fl, d, priority, match, actions) ==
    [fl EXCEPT ![d] =
        {r \in @ : ~(r.priority = priority /\ r.match = match)}
        \cup {Rule(priority, match, actions, DEFAULT_HARD_TIMEOUT)}]

\* SimpleSwitch13Monitor.switch_features_handler.  The handlers of the
\* application run one after the other in its event loop; monitor() runs in
\* a thread of its own.
MonitorSwitchFeatures(d) ==
    /\ handler = NoHandler
    /\ l2_flows' = L2AddFlow(l2_flows, d, TABLE_MISS_PRIORITY, EmptyMatch,
                             <<OutputAction(OFPP_CONTROLLER)>>)
    /\ pkt_count' = SetDefault(pkt_count, DpidKey(d), NoCount)
    /\ UNCHANGED <<mac_to_port, handler, timerPc, timerTodo, timerSize, sent,
                   last_report>>
    /\ UNCHANGED <<ctlVars, agentVars, staticVars>>

\* the Ethernet frames counted so far, over all datapaths
RECURSIVE SumIn(_, _)
SumIn(counts, keys) ==
    IF keys = {} THEN 0
    ELSE LET k == CHOOSE x \in keys : TRUE
         IN  counts[k].in + SumIn(counts, keys \ {k})

Handled(counts) == SumIn(counts, DOMAIN counts)

\* a handler that counts 'out' before it looks at the frame
PacketInCountsOutFirst(d, frame, src, dst) ==
    /\ handler = NoHandler
    /\ DpidKey(d) \in DOMAIN pkt_count
    /\ pkt_count[DpidKey(d)].out < MaxPackets
    /\ pkt_count' = [pkt_count EXCEPT ![DpidKey(d)].out = @ + 1]
    /\ UNCHANGED <<mac_to_port, l2_flows, handler>>
    /\ UNCHANGED <<timerPc, timerTodo, timerSize, sent, last_report>>
    /\ UNCHANGED <<ctlVars, agentVars, staticVars>>

\* _packet_in_handler up to datapath.send_msg(out): a frame without Ethernet
\* header raises at [0], an LLDP frame returns; else 'in' is counted, the
\* source is learnt, the rule is installed when the destination is known and
\* the packet-out is handed to send_msg
PacketIn(d, frame, src, dst) ==
    /\ handler = NoHandler
    /\ DpidKey(d) \in DOMAIN pkt_count
    /\ frame = "eth" => Handled(pkt_count) < MaxPackets
    /\ IF frame # "eth"
       THEN UNCHANGED <<pkt_count, mac_to_port, l2_flows, handler>>
       ELSE LET dpid == DpidKey(d)
                in_port == InPort(src)
                m1 == SetDefault(mac_to_port, dpid, EmptyDict)
                counted == SetDefault(pkt_count, dpid, NoCount)
                m2 == [m1 EXCEPT ![dpid] = DictSet(@, src, in_port)]
                out_port == IF dst \in DOMAIN m2[dpid] THEN m2[dpid][dst]
                            ELSE OFPP_FLOOD
            IN  /\ pkt_count' = [counted EXCEPT ![dpid].in = @ + 1]
                /\ mac_to_port' = m2
                /\ l2_flows' =
                       IF out_port # OFPP_FLOOD
                       THEN L2AddFlow(l2_flows, d, L2_PRIORITY,
                                [in_port |-> in_port, eth_src |-> src,
                                 eth_dst |-> dst],
                                <<OutputAction(out_port)>>)
                       ELSE l2_flows
                /\ handler' = [key |-> dpid, out_port |-> out_port]
    /\ UNCHANGED <<timerPc, timerTodo, timerSize, sent, last_report>>
    /\ UNCHANGED <<ctlVars, agentVars, staticVars>>

\* the rest of _packet_in_handler: send_msg returns and 'out' is counted for
\* a packet that was not flooded, or send_msg raises and the handler ends
PacketOut(res) ==
    /\ handler # NoHandler
    /\ handler' = NoHandler
    /\ pkt_count' =
           IF res = "ok" /\ handler.out_port # OFPP_FLOOD
           THEN [pkt_count EXCEPT ![handler.key].out = @ + 1]
           ELSE pkt_count
    /\ UNCHANGED <<mac_to_port, l2_flows, timerPc, timerTodo, timerSize, sent,
                   last_report>>
    /\ UNCHANGED <<ctlVars, agentVars, staticVars>>

\* the timer fires: monitor() starts, for dpid in self.pkt_count
TimerFires ==
    /\ timerPc = "wait"
    /\ timerPc' = "scan"
    /\ timerTodo' = DOMAIN pkt_count
    /\ timerSize' = Cardinality(DOMAIN pkt_count)
    /\ UNCHANGED <<pkt_count, mac_to_port, l2_flows, handler, sent,
                   last_report>>
    /\ UNCHANGED <<ctlVars, agentVars, staticVars>>

\* monitor(): the next dpid of the loop and sent = ...get('out', 0).  The
\* dictionary iterator raises when pkt_count changed size since the loop
\* began, and the timer is not started again; after the last dpid the next
\* timer is started.
MonitorReadSent ==
    /\ timerPc = "scan"
    /\ IF Cardinality(DOMAIN pkt_count) # timerSize
       THEN /\ timerPc' = "dead"
            /\ timerTodo' = {}
            /\ UNCHANGED sent
       ELSE IF timerTodo = {}
       THEN /\ timerPc' = "wait"
            /\ UNCHANGED <<timerTodo, sent>>
       ELSE \E dpid \in timerTodo :
            /\ timerPc' = "read"
            /\ timerTodo' = timerTodo \ {dpid}
            /\ sent' = [NoReport EXCEPT !.dpid = dpid,
                                        !.sent = pkt_count[dpid].out]
    /\ UNCHANGED <<pkt_count, mac_to_port, l2_flows, handler, timerSize,
                   last_report>>
    /\ UNCHANGED <<ctlVars, agentVars, staticVars>>

\* monitor(): received = ...get('in', 0); loss = max(0, sent - received);
\* the line is logged
MonitorReport ==
    /\ timerPc = "read"
    /\ timerPc' = "scan"
    /\ LET received == pkt_count[sent.dpid].in
       IN  last_report' = [sent EXCEPT !.received = received,
                                       !.loss =
                                           IF sent.sent - received > 0
                                           THEN sent.sent - received
                                           ELSE 0]
    /\ UNCHANGED <<pkt_count, mac_to_port, l2_flows, handler, timerTodo,
                   timerSize, sent>>
    /\ UNCHANGED <<ctlVars, agentVars, staticVars>>

(***************************************************************************)
(* Specifications.                                                         *)
(***************************************************************************)
Init == CtlInit /\ AgentInit /\ StaticInit /\ MonitorInit

Next == CtlNext

Spec == Init /\ [][Next]_vars

\* the rules an accepted install-reroute request of this model installs
RerouteRules ==
    {Rule(q.priority, q.match, OutputActions(q.actions), REROUTE_HARD_TIMEOUT) :
        q \in {x \in RerouteRequests : MatchAccepted(x.match)}}

\* the controller and the flow tables only; a switch does remove a rule
\* whose hard timeout is over
RuleNext ==
    \/ \E d \in DeviceIds : SwitchFeatures(d)
    \/ \E d \in DeviceIds : StateChangeMain(d)
    \/ \E d \in DeviceIds : StateChangeDead(d)
    \/ \E d \in DeviceIds : \E r \in flows[d] : RuleExpires(d, r)
    \/ \E q \in RerouteRequests : RerouteFlow(q)

RuleLiveSpec ==
    /\ Init
    /\ [][RuleNext]_vars
    /\ \A d \in DeviceIds : \A r \in RerouteRules : WF_vars(RuleExpires(d, r))

\* the controller, the flow tables and install-reroute requests with every
\* action list
RerouteNext ==
    \/ \E d \in DeviceIds : SwitchFeatures(d)
    \/ \E d \in DeviceIds : StateChangeMain(d)
    \/ \E d \in DeviceIds : StateChangeDead(d)
    \/ \E d \in DeviceIds : \E r \in flows[d] : RuleExpires(d, r)
    \/ \E q \in ActionRequests : RerouteFlow(q)

RerouteSpec == Init /\ [][RerouteNext]_vars

\* the first MaxEpisodes iterations of the agent
BoundedObserve(r) == e <= MaxEpisodes /\ Observe(r)

AgentNext ==
    \/ \E r \in AgentReads : Initialize(r)
    \/ \E r \in AgentReads : BoundedObserve(r)
    \/ \E res \in PostResults : ExecuteAction(res)
    \/ \E r \in AgentReads : ObserveNext(r)

AgentSpec == Init /\ [][AgentNext]_vars

\* the first iteration of the agent, on counters around the level limits
FirstObserve(r) == e = FIRST_EPISODE /\ Observe(r)

EpisodeNext ==
    \/ \E r \in BoundaryReads : Initialize(r)
    \/ \E r \in BoundaryReads : FirstObserve(r)
    \/ \E res \in PostResults : ExecuteAction(res)
    \/ \E r \in BoundaryReads : ObserveNext(r)

EpisodeSpec == Init /\ [][EpisodeNext]_vars

\* the first LearnEpisodes iterations of the agent on two reads: long enough
\* for learn to meet scores it has written before
LearnObserve(r) == e <= LearnEpisodes /\ Observe(r)

LearnNext ==
    \/ \E r \in LearnReads : Initialize(r)
    \/ \E r \in LearnReads : LearnObserve(r)
    \/ \E res \in PostResults : ExecuteAction(res)
    \/ \E r \in LearnReads : ObserveNext(r)

LearnSpec == Init /\ [][LearnNext]_vars

\* the whole run of the agent on an idle network
EpsNext ==
    \/ \E r \in IdleReads : Initialize(r)
    \/ \E r \in IdleReads : Observe(r)
    \/ \E res \in PostResults : ExecuteAction(res)
    \/ \E r \in IdleReads : ObserveNext(r)
    \/ \E res \in PostResults : PushQTable(res)
    \/ Finish

EpsSpec == Init /\ [][EpsNext]_vars

\* the reads of an idle network whose gateway can fail to answer
RunReads == IdleReads \cup {ReadFailed}

\* the reads of the episode loop, of which up to MaxVoided fail
VoidableObserve(r) == (Falsy(r) => run.voided < MaxVoided) /\ Observe(r)

VoidableObserveNext(r) ==
    (Falsy(r) => run.voided < MaxVoided) /\ ObserveNext(r)

\* the whole run of the agent with failing reads
RunNext ==
    \/ \E r \in RunReads : Initialize(r)
    \/ \E r \in RunReads : VoidableObserve(r)
    \/ \E res \in PostResults : ExecuteAction(res)
    \/ \E r \in RunReads : VoidableObserveNext(r)
    \/ \E res \in PostResults : PushQTable(res)
    \/ Finish

RunSpec == Init /\ [][RunNext]_vars

\* the static path controller and the connect events of its switches
StaticNext == \E d \in StaticSwitches : StaticSwitchFeatures(d)

StaticSpec == Init /\ [][StaticNext]_vars

\* the monitoring switch app, its switches and its timer
MonitorNext ==
    \/ \E d \in MonitorSwitches : MonitorSwitchFeatures(d)
    \/ \E d \in MonitorSwitches : \E frame \in Frames :
         \E src, dst \in Macs : PacketIn(d, frame, src, dst)
    \/ \E res \in {"ok", "raise"} : PacketOut(res)
    \/ TimerFires
    \/ MonitorReadSent
    \/ MonitorReport

MonitorSpec == Init /\ [][MonitorNext]_vars

(***************************************************************************)
(* Properties of the control gateway and the collector (Spec).             *)
(***************************************************************************)
\* the part of the controller an install-reroute request may change
StoreAndRules == <<dpState, datapaths, port_stats, flow_stats, portReq, flows>>

\* C1: install-reroute with a device id that is not registered is answered
\* 404 "Datapath not found.", sends no flow-mod and changes neither the
\* registry, the Stats Store nor the rules of any device.
C1_UnregisteredRerouteFails ==
    [][\A q \in RerouteRequests :
        (q.dpid \notin datapaths /\ RerouteFlow(q)) =>
            /\ resp'.op = "reroute_flow"
            /\ resp'.status = 404
            /\ resp'.mods = 0
            /\ UNCHANGED StoreAndRules]_vars

\* a request was refused with 404 while a switch was registered and held rules
C1_Witness ==
    /\ resp.op = "reroute_flow"
    /\ resp.status = 404
    /\ \E d \in datapaths : flows[d] # {}

\* C2: while device D is disconnected, read-state returns no snapshot for D
\* and install-reroute addressed to D finds no datapath.
C2_DisconnectedDeviceRemoved ==
    \A d \in DeviceIds :
        dpState[d] = "closed" =>
            /\ ToString(d) \notin DOMAIN NetworkStateResponse(port_stats).json
            /\ ~DatapathFound(datapaths, d)

\* C3: a read-state made right after a stats reply of device D was processed
\* returns that reply's body for D, and the reply leaves the snapshot of
\* every other device as it was.
C3_ReadReflectsLastReply ==
    [][\A d \in DeviceIds : \A body \in ReplyBodies(d) :
        PortStatsReply(d, body) =>
            LET before == NetworkStateResponse(port_stats).json
                after == NetworkStateResponse(port_stats').json
            IN  /\ ToString(d) \in DOMAIN after
                /\ after[ToString(d)] = body
                /\ \A k \in (DOMAIN before \cup DOMAIN after) \ {ToString(d)} :
                    /\ k \in DOMAIN before
                    /\ k \in DOMAIN after
                    /\ after[k] = before[k]]_vars

\* a read returned the current store, with reply bodies of two devices in it
C3_Witness ==
    /\ resp.op = "network_state"
    /\ resp.json = NetworkStateJson(port_stats)
    /\ \A d \in DeviceIds :
        /\ ToString(d) \in DOMAIN resp.json
        /\ resp.json[ToString(d)] \in ReplyBodies(d)

\* a snapshot is the initial empty one or one whole reply body of its device
WholeSnapshot(d, snapshot) ==
    snapshot = EmptyDict \/ snapshot \in ReplyBodies(d)

\* C4: the snapshot the store holds, and the snapshot a read returned, for a
\* device is always one whole reply body of that device or the initial empty
\* snapshot, never a mixture of the records of two replies.
C4_NoTornSnapshot ==
    /\ \A d \in DOMAIN port_stats : WholeSnapshot(d, port_stats[d])
    /\ resp.op = "network_state" =>
        \A d \in DeviceIds :
            ToString(d) \in DOMAIN resp.json =>
                WholeSnapshot(d, resp.json[ToString(d)])

\* a read returned a reply body of a device whose next reply is on its way
C4_Witness ==
    /\ resp.op = "network_state"
    /\ \E d \in DeviceIds :
        /\ ToString(d) \in DOMAIN resp.json
        /\ resp.json[ToString(d)] \in ReplyBodies(d)
        /\ portReq[d] > 0

\* C5: read-state can be served in every reachable state, also while stats
\* requests are unanswered, and serving it changes neither the registry, the
\* Stats Store, the outstanding requests, the poll loop nor any rule.
C5_ReadNeverWaits ==
    /\ [](ENABLED GetNetworkState)
    /\ [][GetNetworkState =>
            UNCHANGED <<StoreAndRules, monPc, monTodo, monSize>>]_vars

\* a read was served in the middle of a poll cycle, a stats request unanswered
C5_Witness ==
    /\ resp.op = "network_state"
    /\ monPc = "iter"
    /\ \E d \in DeviceIds : portReq[d] > 0

\* C7: the rules the agent's two requests install never coexist on the
\* monitored device; after an agent request answered 200 the device holds
\* exactly the rule of that request, and no other step puts an agent rule on
\* the device.
AgentRuleOf(a) ==
    Rule(FlowRule(a).priority, FlowRule(a).match,
         OutputActions(FlowRule(a).actions), REROUTE_HARD_TIMEOUT)

AgentRules == {AgentRuleOf(a) : a \in Actions}

AgentRulesOn(fl) == fl[SWITCH_DPID] \cap AgentRules

AgentRerouteDone(a) == RerouteFlow(FlowRule(a)) /\ resp'.status = 200

C7_RerouteReplaces ==
    /\ [](Cardinality(AgentRulesOn(flows)) <= 1)
    /\ [][/\ \A a \in Actions :
                AgentRerouteDone(a) => AgentRulesOn(flows') = {AgentRuleOf(a)}
          /\ (\A a \in Actions : ~AgentRerouteDone(a)) =>
                AgentRulesOn(flows') \subseteq AgentRulesOn(flows)]_vars

\* the monitored device holds the rule of action 1 next to its catch-all rule,
\* the last request was answered 200
C7_Witness ==
    /\ resp.op = "reroute_flow"
    /\ resp.status = 200
    /\ AgentRulesOn(flows) = {AgentRuleOf(1)}
    /\ TableMissRule \in flows[SWITCH_DPID]

\* C17: a connect event of device d, first or repeated, leaves d registered,
\* d's snapshot in the Stats Store empty and one priority-0 catch-all rule
\* on d.
C17_ConnectInitializes ==
    [][\A d \in DeviceIds :
        SwitchFeatures(d) =>
            /\ d \in datapaths'
            /\ d \in DOMAIN port_stats'
            /\ port_stats'[d] = EmptyDict
            /\ {r \in flows'[d] : r.priority = 0} = {TableMissRule}]_vars

\* request q cannot be installed: its match fields are malformed, or the
\* device rejects the rule
RerouteIsBad(q) == ~MatchAccepted(q.match) \/ ~SwitchAccepts(q.match)

\* C18: an install-reroute request that fails (malformed match fields, rule
\* rejected by the device) is answered with a failure and a reason and
\* installs nothing, success is answered only for a rule that is on the
\* device, and the gateway can always serve a further request.
C18_FailedRerouteReported ==
    /\ [][\A q \in RerouteRequests :
            RerouteFlow(q) =>
                /\ (q.dpid \in datapaths /\ RerouteIsBad(q)) =>
                        /\ resp'.status # 200
                        /\ resp'.json # "Flow rule added."
                        /\ flows' = flows
                /\ resp'.status = 200 =>
                        \E r \in flows'[q.dpid] :
                            /\ r.priority = q.priority
                            /\ r.match = q.match
                            /\ r.hard_timeout = 10]_vars
    /\ [](\A q \in RerouteRequests : ENABLED RerouteFlow(q))

\* C28: a poll cycle changes no snapshot, and the snapshot of a device stays
\* in the Stats Store as it is, over poll cycles, disconnects and requests,
\* until a reply of that device is stored.
C28_PollKeepsSnapshots ==
    /\ [][(MonitorBegin \/ MonitorStep) => UNCHANGED <<port_stats, flow_stats>>]_vars
    /\ [][\A d \in DOMAIN port_stats :
            (\A body \in ReplyBodies(d) : ~PortStatsReply(d, body)) =>
                /\ d \in DOMAIN port_stats'
                /\ port_stats'[d] = port_stats[d]]_vars

\* switch 1 has answered once; a later poll cycle is over and its request is
\* still unanswered, the snapshot is the old reply
C28_Witness ==
    /\ SWITCH_DPID \in DOMAIN port_stats
    /\ port_stats[SWITCH_DPID] \in ReplyBodies(SWITCH_DPID)
    /\ portReq[SWITCH_DPID] > 0
    /\ monPc = "loop"

\* C36: a poll cycle that is iterating over the registry goes on or ends in
\* the sleep before the next cycle, whatever connect and disconnect events
\* are handled meanwhile, and a stats request is sent only by a cycle and only
\* to a device the cycle found registered and has not visited.
C36_PollSurvivesRegistryChange ==
    [][/\ monPc = "iter" => monPc' \in {"iter", "loop"}
       /\ (MonitorBegin \/ MonitorStep) =>
            \A d \in DeviceIds :
                portReq'[d] > portReq[d] =>
                    d \in (IF monPc = "loop" THEN datapaths ELSE monTodo)]_vars

(***************************************************************************)
(* Action lists of install-reroute (RerouteSpec).                          *)
(***************************************************************************)
\* the entries of an action list that are OUTPUT entries, in order
OutputEntries(l) == SelectSeq(l, LAMBDA a : a.type = "OUTPUT")

\* C34: an install-reroute request for a registered device is answered with
\* success whatever the types of its action entries, one flow-mod is sent,
\* and the device then holds the rule of the request with the OUTPUT entries
\* of the list in their order and no other entry, an empty list when no
\* entry is an OUTPUT.
C34_NonOutputActionsDropped ==
    [][\A q \in ActionRequests :
        (RerouteFlow(q) /\ DatapathFound(datapaths, q.dpid)) =>
            /\ resp'.status = 200
            /\ resp'.mods = 1
            /\ Rule(q.priority, q.match, OutputEntries(q.actions),
                    REROUTE_HARD_TIMEOUT) \in flows'[q.dpid]
            /\ \A r \in flows'[q.dpid] :
                   \A i \in DOMAIN r.actions : r.actions[i].type = "OUTPUT"
            /\ \A d \in DeviceIds \ {q.dpid} : flows'[d] = flows[d]]_vars

\* a request none of whose entries is an OUTPUT was answered with success and
\* the monitored switch holds its rule, with an empty action list
C34_Witness ==
    /\ resp.op = "reroute_flow"
    /\ resp.status = 200
    /\ Rule(AGENT_PRIORITY, AgentMatch, <<>>, REROUTE_HARD_TIMEOUT)
           \in flows[SWITCH_DPID]

(***************************************************************************)
(* Lifetime of rules (RuleLiveSpec).                                       *)
(***************************************************************************)
\* every rule but the catch-all rule carries the hard timeout of reroute_flow
BoundedLifetime ==
    \A d \in DeviceIds : \A r \in flows[d] :
        IF r = TableMissRule
        THEN r.hard_timeout = 0
        ELSE r.hard_timeout = REROUTE_HARD_TIMEOUT /\ r.hard_timeout > 0

\* C6: every rule installed through install-reroute carries the hard timeout
\* of 10 seconds and so leaves the device again; only the catch-all rule of
\* the connect handler has no timeout.
C6_RerouteRulesExpire ==
    /\ []BoundedLifetime
    /\ \A d \in DeviceIds : \A r \in RerouteRules :
        (r \in flows[d]) ~> (r \notin flows[d])

\* a reroute rule with its timeout sits next to the catch-all rule
C6_Witness ==
    \E d \in DeviceIds :
        /\ TableMissRule \in flows[d]
        /\ \E r \in flows[d] : r.hard_timeout = REROUTE_HARD_TIMEOUT

(***************************************************************************)
(* Properties of the agent (AgentSpec).                                    *)
(***************************************************************************)
\* C8: every score learn has not assigned yet reads as 0, for stored and for
\* unseen states alike: the first lookup and the first write of a state start
\* from the all-zero vector, a lookup leaves it all-zero, and the table holds
\* nothing but States with one score per Action.
C8_ZeroInitialization ==
    /\ DOMAIN q_table \subseteq States
    /\ \A s \in States :
        /\ DOMAIN QGet(q_table, s) = 1..ACTION_SIZE
        /\ \A a \in Actions :
            <<s, a>> \notin written => QGet(q_table, s)[a + 1] = 0

\* one state is stored by a lookup only and still all-zero, another state has
\* one score learnt and the other score still 0
C8_Witness ==
    /\ \E s \in DOMAIN q_table :
        /\ \A a \in Actions : <<s, a>> \notin written
        /\ q_table[s] = Zeros
    /\ \E s \in DOMAIN q_table : \E a, b \in Actions :
        /\ <<s, a>> \in written
        /\ q_table[s][a + 1] < 0
        /\ <<s, b>> \notin written
        /\ q_table[s][b + 1] = 0

\* the score of (s, a) in table q, 0 for a state that is not stored
ScoreOf(q, s, a) == IF s \in DOMAIN q THEN q[s][a + 1] ELSE 0

\* the scores a lookup of each State returns
Scores(q) == [s \in States |-> QGet(q, s)]

\* the step is the whole learn of the running episode on an answered read
WholeLearn ==
    /\ pc = "observe_next"
    /\ \E r \in AgentReads :
        /\ ~Falsy(r)
        /\ LET d == discretize_state(r.json, current_port_tx)
           IN  q_table' = LearnQ(q_table, state, action,
                                 calculate_reward(d.raw_throughput), d.state)
    /\ epsilon' = LearnEpsilon(epsilon)

\* C10: in each iteration of the episode loop learn is called once when both
\* reads were answered with statistics and not at all when one of them failed,
\* and a step changes the scores and epsilon by a whole learn or not at all.
C10_LearnOnceOrNever ==
    /\ [](iter.learns = IF iter.read1 = "ok" /\ iter.read2 = "ok" THEN 1 ELSE 0)
    /\ [][\/ Scores(q_table') = Scores(q_table) /\ epsilon' = epsilon
          \/ WholeLearn /\ iter'.learns = 1]_vars

\* two iterations have ended, one voided by a failed read and the other with
\* its learn: one score is learnt, epsilon has decayed once
C10_Witness ==
    /\ pc = "observe"
    /\ e = 3
    /\ iter.read1 = "ok"
    /\ iter.read2 = "ok"
    /\ iter.learns = 1
    /\ Cardinality(written) = 1
    /\ epsilon = LearnEpsilon(EPSILON_START)

\* C11: when an iteration has ended voided by a failed read, the first or the
\* second one, the table (stored states and scores), epsilon and the baseline
\* counters are what the iteration found at the loop head.
C11_VoidedEpisodeChangesNothing ==
    (pc = "observe" /\ (iter.read1 = "fail" \/ iter.read2 = "fail")) =>
        /\ q_table = iter.start.q_table
        /\ epsilon = iter.start.epsilon
        /\ last_port_tx = iter.start.last_port_tx

\* C16: no failed telemetry read, at start-up or in an episode, makes the
\* agent process exit.
C16_ReadFailureNeverExits == pc # "exit"

\* C15: the action selected is 0 or 1, in explore and in exploit mode and for
\* every state, and the install-reroute request built for it has device 1,
\* priority 100, the match (ingress port 1, IPv4, destination 10.0.0.2) and
\* one OUTPUT action, to port 2 for action 0 and to port 3 for action 1.
C15_WellFormedRequest ==
    /\ action \in {0, 1}
    /\ \A s \in States :
        \A o \in ActOutcomes(q_table, epsilon, s) : o.action \in {0, 1}
    /\ request # NoRequest =>
        request = [dpid |-> 1, priority |-> 100,
                   match |-> [in_port |-> 1, eth_type |-> 2048,
                              ipv4_dst |-> "10.0.0.2"],
                   actions |-> <<[type |-> "OUTPUT",
                                  port |-> IF action = 0 THEN 2 ELSE 3]>>]

\* the request of an action selected in exploit mode has been sent: the
\* state was stored by act's lookup, which only the exploit branch makes
C15_Witness ==
    /\ pc = "observe_next"
    /\ state \notin DOMAIN iter.start.q_table
    /\ state \in DOMAIN q_table
    /\ action = 0
    /\ request = FlowRule(0)

\* C20: every score vector stored in the table has as many entries as there
\* are actions, 2.
C20_VectorLength ==
    \A s \in DOMAIN q_table : DOMAIN q_table[s] = 1..2

\* the table holds a state learn has written and a state stored by a lookup
\* only
C20_Witness ==
    /\ \E s \in DOMAIN q_table : \E a \in Actions : <<s, a>> \in written
    /\ \E s \in DOMAIN q_table : \A a \in Actions : <<s, a>> \notin written

\* the counter of port p in the answer r of a read: tx_bytes of the last
\* record of p under the monitored switch, 0 when there is none
CounterIn(r, p) ==
    LET key == ToString(SWITCH_DPID)
        body == IF key \in DOMAIN r.json THEN r.json[key] ELSE <<>>
        at == {i \in DOMAIN body : body[i].port_no = p}
    IN  IF at = {} THEN 0
        ELSE body[CHOOSE i \in at : \A j \in at : j <= i].tx_bytes

CountersIn(r) == [p \in {2, 3} |-> CounterIn(r, p)]

\* C23: the baseline the discretizer returns is the counters just read: the
\* initial read sets the carried baseline, the first read of an episode sets
\* the baseline of the second discretization and leaves the carried one, and
\* the second read of a completed episode measures against the first read
\* and becomes the carried baseline, whatever the action and its outcome.
C23_BaselineIsLastRead ==
    [][\A r \in AgentReads :
        ~Falsy(r) =>
            /\ Initialize(r) => last_port_tx' = CountersIn(r)
            /\ Observe(r) =>
                /\ current_port_tx' = CountersIn(r)
                /\ last_port_tx' = last_port_tx
            /\ ObserveNext(r) =>
                /\ last_port_tx' = CountersIn(r)
                /\ \A i \in 1..2 :
                    LET diff == CounterIn(r, i + 1) - current_port_tx[i + 1]
                    IN  iter'.next_raw_throughput[i] =
                            (IF diff >= 0 THEN diff ELSE 0)]_vars

\* an episode has completed on counters (0, 0), (100000, 0) and
\* (1000000, 100000): the carried baseline is the last of them
C23_Witness ==
    /\ pc = "observe"
    /\ iter.learns = 1
    /\ iter.start.last_port_tx = [p \in {2, 3} |-> 0]
    /\ iter.raw_throughput = <<100000, 0>>
    /\ iter.next_raw_throughput = <<900000, 100000>>
    /\ last_port_tx = (2 :> 1000000 @@ 3 :> 100000)

\* C24: over the two discretizations of an episode the deltas of a port whose
\* counter does not fall add up to the last counter read minus the baseline
\* the episode began with, also when the first read has no record of the
\* port.
C24_DeltasTelescope ==
    [][\A r \in AgentReads :
        (ObserveNext(r) /\ ~Falsy(r)) =>
            \A p \in MonitoredPorts :
                LET b == last_port_tx[p]
                    mid == current_port_tx[p]
                    c == CounterIn(r, p)
                    NonDecreasing ==
                        /\ p \in PortsIn(r.json)
                        /\ b <= c
                        /\ p \in iter.ports => (b <= mid /\ mid <= c)
                IN  NonDecreasing =>
                        iter.raw_throughput[p - 1]
                            + iter'.next_raw_throughput[p - 1] = c - b]_vars

\* C25: an install-reroute answered with an error, or raising, does not void
\* the episode: the agent goes on to its second read with nothing changed,
\* and when that read is answered it calls learn once and updates the score
\* of the chosen action and no other.
C25_FailedActionStillLearns ==
    [][/\ \A res \in {"error", "raise"} :
            ExecuteAction(res) =>
                /\ pc' = "observe_next"
                /\ UNCHANGED <<e, q_table, epsilon, last_port_tx, state,
                               action>>
       /\ \A r \in AgentReads :
            (ObserveNext(r) /\ ~Falsy(r) /\ iter.post \in {"error", "raise"}) =>
                /\ iter'.learns = 1
                /\ written' = written \cup {<<state, action>>}
                /\ \A s \in States : \A a \in Actions :
                     <<s, a>> # <<state, action>> =>
                        ScoreOf(q_table', s, a) = ScoreOf(q_table, s, a)]_vars

\* the first episode has completed after a request that raised: learn was
\* called once and one score is written, with a negative reward
C25_Witness ==
    /\ pc = "observe"
    /\ e = 2
    /\ iter.post = "raise"
    /\ iter.read2 = "ok"
    /\ iter.learns = 1
    /\ iter.reward < 0
    /\ Cardinality(written) = 1
    /\ \E s \in DOMAIN q_table : \E a \in Actions : q_table[s][a + 1] < 0

\* C27: when an iteration has ended by a failed read, the first or the
\* second one, the agent has slept its backoff before it makes the next read.
C27_BackoffAfterFailedRead ==
    (pc = "observe" /\ (iter.read1 = "fail" \/ iter.read2 = "fail")) =>
        iter.slept

\* C30: the steps of an episode come in the order observe and decide, act and
\* settle, observe-next with reward and learn; learn is the last step, and
\* the loop moves to the next episode only from an episode that has learnt or
\* was voided by a failed read.
C30_EpisodesSequential ==
    /\ [](pc \in {"act", "observe_next"} => iter.learns = 0)
    /\ [][/\ \/ pc = "start" /\ pc' \in {"observe", "exit"}
             \/ pc = "observe" /\ pc' = "act" /\ iter'.read1 = "ok"
             \/ pc = "observe" /\ pc' = "observe" /\ iter'.read1 = "fail"
             \/ pc = "act" /\ pc' = "observe_next"
             \/ pc = "observe_next" /\ pc' \in {"observe", "push"}
             \/ pc = "push" /\ pc' = "observe"
          /\ e' # e =>
                /\ e' = e + 1
                /\ pc' = "observe"
                /\ \/ iter'.learns = 1
                   \/ iter'.read1 = "fail"
                   \/ iter'.read2 = "fail"
          /\ e' = e => (pc' # pc /\ pc' # "observe")
                       \/ (pc = "start" /\ pc' = "observe")]_vars

\* episode 2 waits for its second read, episode 1 has learnt
C30_Witness ==
    /\ pc = "observe_next"
    /\ e = 2
    /\ iter.learns = 0
    /\ iter.read1 = "ok"
    /\ Cardinality(written) = 1

\* C31: no score of the table is ever positive: the vectors start at zero,
\* a reward is never positive, and learn keeps the sign.
C31_ScoresNeverPositive ==
    /\ \A s \in DOMAIN q_table : \A a \in Actions : q_table[s][a + 1] <= 0
    /\ iter.reward <= 0

\* two scores have been learnt from negative rewards and are negative
C31_Witness ==
    /\ pc = "observe"
    /\ e = 3
    /\ iter.reward < 0
    /\ Cardinality({c \in written : ScoreOf(q_table, c[1], c[2]) < 0}) = 2

\* C32: the learn of an episode on (state, action, reward, next state) leaves
\* every score but that of (state, action) as it was, and the stored states
\* afterwards are those stored before with the state and the next state,
\* which get the all-zero vector when they were not stored.
C32_LearnTouchesOneCell ==
    [][\A r \in AgentReads :
        (ObserveNext(r) /\ ~Falsy(r)) =>
            LET s2 == discretize_state(r.json, current_port_tx).state
            IN  /\ DOMAIN q_table' = DOMAIN q_table \cup {state, s2}
                /\ \A s \in DOMAIN q_table' : \A a \in Actions :
                    <<s, a>> # <<state, action>> =>
                        q_table'[s][a + 1] =
                            IF s \in DOMAIN q_table THEN q_table[s][a + 1]
                            ELSE 0]_vars

\* a learn has stored a state and a next state that differ and were both
\* unseen, and has given one score of the state a negative value; an earlier
\* learn had written another state
C32_Witness ==
    /\ pc = "observe"
    /\ e = 3
    /\ iter.learns = 1
    /\ Cardinality(DOMAIN q_table) >= 3
    /\ Cardinality(DOMAIN iter.start.q_table) = 1
    /\ \E s \in DOMAIN q_table \ DOMAIN iter.start.q_table :
        /\ q_table[s] = Zeros
    /\ \E s \in DOMAIN q_table \ DOMAIN iter.start.q_table :
        \E a \in Actions : q_table[s][a + 1] < 0 /\ <<s, a>> \in written

\* C33: a read answered with the empty mapping does what a failed read
\* does: the initial read ends the agent, the first read of an episode voids
\* it after the backoff sleep, the second read voids it without a learn; the
\* table, epsilon and the baseline stay as they were.
C33_EmptyMappingIsFailure ==
    [][/\ Initialize(ReadOk(EmptyDict)) =>
            /\ Initialize(ReadFailed)
            /\ pc' = "exit"
            /\ UNCHANGED <<q_table, epsilon, last_port_tx, written>>
       /\ Observe(ReadOk(EmptyDict)) =>
            /\ Observe(ReadFailed)
            /\ pc' = "observe" /\ e' = e + 1
            /\ iter'.read1 = "fail" /\ iter'.slept /\ iter'.learns = 0
            /\ UNCHANGED <<q_table, epsilon, last_port_tx, written>>
       /\ ObserveNext(ReadOk(EmptyDict)) =>
            /\ ObserveNext(ReadFailed)
            /\ pc' = "observe" /\ e' = e + 1
            /\ iter'.read2 = "fail" /\ iter'.learns = 0
            /\ UNCHANGED <<q_table, epsilon, last_port_tx, written>>]_vars

\* two episodes have been voided, the last one at its second read after the
\* agent had chosen and sent its action; nothing has been learnt
C33_Witness ==
    /\ pc = "observe"
    /\ e = 3
    /\ iter.read1 = "ok"
    /\ iter.read2 = "fail"
    /\ iter.post # "none"
    /\ iter.learns = 0
    /\ written = {}
    /\ epsilon = EPSILON_START

(***************************************************************************)
(* Discretizer and reward on the first episode (EpisodeSpec).              *)
(***************************************************************************)
\* the byte delta of port p between the baseline and the first read
DeltaOf(p) ==
    IF current_port_tx[p] - last_port_tx[p] > 0
    THEN current_port_tx[p] - last_port_tx[p]
    ELSE 0

\* the first read of the iteration has been discretized
Discretized == pc \in {"act", "observe_next"}

\* C12: a delta is low iff it is below 100,000, medium iff it is at least
\* 100,000 and below 1,000,000, high iff it is at least 1,000,000 (99,999 low,
\* 100,000 medium, 999,999 medium, 1,000,000 high), and the State is the pair
\* (level of port 2, level of port 3).
C12_TrafficLevels ==
    /\ get_traffic_level(99999) = "low"
    /\ get_traffic_level(100000) = "medium"
    /\ get_traffic_level(999999) = "medium"
    /\ get_traffic_level(1000000) = "high"
    /\ Discretized =>
        \A i \in 1..2 :
            LET d == DeltaOf(i + 1)
            IN  /\ state[i] = "low" <=> d < 100000
                /\ state[i] = "medium" <=> (100000 <= d /\ d < 1000000)
                /\ state[i] = "high" <=> d >= 1000000

\* port 2 moved by 99,999 bytes and port 3 by 100,000
C12_Witness ==
    /\ pc = "act"
    /\ DeltaOf(2) = 99999
    /\ DeltaOf(3) = 100000
    /\ state = <<"low", "medium">>

\* C13: the delta the discretizer reports for a monitored port is
\* max(0, current - previous) and never negative, after the first and after
\* the second read.
C13_DeltaClamped ==
    /\ Discretized =>
        \A i \in 1..2 :
            LET diff == current_port_tx[i + 1] - last_port_tx[i + 1]
            IN  /\ iter.raw_throughput[i] = (IF diff >= 0 THEN diff ELSE 0)
                /\ iter.raw_throughput[i] >= 0
    /\ \A i \in 1..2 : iter.next_raw_throughput[i] >= 0

\* the counter of port 2 fell from 80 to 50: the delta reported is 0
C13_Witness ==
    /\ pc = "act"
    /\ last_port_tx[PORT_A] = 80
    /\ current_port_tx[PORT_A] = 50
    /\ iter.raw_throughput[1] = 0

\* C14: the reward of a completed episode is at most 0, is the negative of
\* the larger of the two deltas of the second read, and is 0 exactly when
\* both deltas are 0.
C14_RewardIsNegativeMax ==
    iter.learns = 1 =>
        LET a == iter.next_raw_throughput[1]
            b == iter.next_raw_throughput[2]
        IN  /\ iter.reward <= 0
            /\ iter.reward = 0 - (IF a >= b THEN a ELSE b)
            /\ iter.reward = 0 <=> (a = 0 /\ b = 0)

\* an episode has completed with deltas (200000, 50000): the reward is
\* -200000
C14_Witness ==
    /\ iter.learns = 1
    /\ iter.next_raw_throughput = <<200000, 50000>>
    /\ iter.reward = -200000

(***************************************************************************)
(* The update rule (LearnSpec).                                            *)
(***************************************************************************)
\* the larger of two numbers
Larger(x, y) == IF x >= y THEN x ELSE y

\* C21: a learn step for (s, a, reward, s') sets Q(s,a) to
\* (1 - 0.1) * Q(s,a) + 0.1 * (reward + 0.9 * max Q(s',.)), with Q(s,a) and
\* the maximum read from the table before the update, also when s' = s, and
\* changes no other score.  Written as
\* 10 * (Q'(s,a) - Q(s,a)) = reward + 0.9 * max Q(s',.) - Q(s,a).
C21_BellmanUpdate ==
    [][\A r \in LearnReads :
        (ObserveNext(r) /\ ~Falsy(r)) =>
            LET d == discretize_state(r.json, current_port_tx)
                old == ScoreOf(q_table, state, action)
                mx == Larger(ScoreOf(q_table, d.state, 0),
                             ScoreOf(q_table, d.state, 1))
            IN  /\ 10 * (ScoreOf(q_table', state, action) - old)
                     = iter'.reward * QScale + 9 * (mx \div 10) - old
                /\ mx % 10 = 0
                /\ \A s \in States : \A a \in Actions :
                     <<s, a>> # <<state, action>> =>
                        ScoreOf(q_table', s, a) = ScoreOf(q_table, s, a)]_vars

\* the third learn has updated a score of (low, low) with next state
\* (low, low), whose two scores were negative before: the maximum was a score
\* learnt earlier
C21_Witness ==
    /\ pc = "observe"
    /\ iter.learns = 1
    /\ iter.raw_throughput = <<0, 0>>
    /\ iter.next_raw_throughput = <<0, 0>>
    /\ <<"low", "low">> \in DOMAIN iter.start.q_table
    /\ iter.start.q_table[<<"low", "low">>][1] < 0
    /\ iter.start.q_table[<<"low", "low">>][2] < 0
    /\ q_table[<<"low", "low">>] # iter.start.q_table[<<"low", "low">>]

\* C22: an action chosen in exploit mode has a maximal score for the current
\* State and the lowest index among the actions of that score; in a state no
\* learn has updated it is action 0.
C22_ExploitLowestArgmax ==
    (pc \in {"act", "observe_next"} /\ iter.mode = "exploit") =>
        /\ \A b \in Actions :
            /\ q_table[state][b + 1] <= q_table[state][action + 1]
            /\ q_table[state][b + 1] = q_table[state][action + 1] => action <= b
        /\ (\A b \in Actions : <<state, b>> \notin written) => action = 0

\* exploit has chosen between two equal scores that learn has written
C22_Witness ==
    /\ pc = "act"
    /\ iter.mode = "exploit"
    /\ q_table[state][1] = q_table[state][2]
    /\ q_table[state][1] < 0
    /\ action = 0

(***************************************************************************)
(* Exploration rate over the whole run (EpsSpec).                          *)
(***************************************************************************)
\* C19: a push of the table, answered, rejected or raising, leaves the table,
\* epsilon, the baseline counters and the locals as they are and goes on to
\* the next iteration, as an iteration without push does; it is not
\* repeated.
C19_PushHasNoEffect ==
    [][\A res \in PostResults :
        PushQTable(res) =>
            /\ UNCHANGED <<q_table, epsilon, last_port_tx, current_port_tx,
                           state, action, request>>
            /\ pc' = "observe"
            /\ e' = e + 1]_vars

\* the first push is over: the loop is at the head of iteration 21 with the
\* learn of iteration 20 done
C19_Witness ==
    /\ pc = "observe"
    /\ e = PUSH_EVERY + 1
    /\ iter.learns = 1
    /\ epsilon < EPSILON_START

\* C26: a completed episode changes epsilon by one decay step, epsilon times
\* 0.995 floored at EPSILON_END, whatever the reward and the state; any other
\* step of the agent leaves epsilon as it is.
C26_DecayOncePerEpisode ==
    [][IF pc = "observe_next" /\ iter'.read2 = "ok"
       THEN epsilon' = Larger(EPSILON_END, epsilon - (epsilon \div 200))
       ELSE epsilon' = epsilon]_vars

\* C29: neither the episode loop nor the poll loop stops by itself.
C29_LoopsNeverStop ==
    /\ pc \notin {"done", "exit"}
    /\ monPc # "dead"

(***************************************************************************)
(* Length of the run (RunSpec).                                            *)
(***************************************************************************)
\* iterations of the episode loop that have ended
IterationsEnded == IF pc = "push" THEN e ELSE e - FIRST_EPISODE

\* C35: every iteration that has ended either called learn once or was
\* voided; the loop variable moves by one; the loop is left only after
\* iteration 1000, and main then returns with as many calls of learn as 1000
\* less the voided iterations.
C35_ThousandIterations ==
    /\ [](run.updates + run.voided = IterationsEnded)
    /\ [](pc = "done" =>
            /\ e = EPISODES + 1
            /\ run.updates = EPISODES - run.voided
            /\ run.updates <= EPISODES)
    /\ [][/\ e' \in {e, e + 1}
          /\ pc' = "done" => (pc = "observe" /\ e = EPISODES + 1)
          /\ (pc # "start" /\ e <= EPISODES) => pc' \notin {"done", "exit"}
          /\ (pc = "observe" /\ e = EPISODES + 1) => pc' = "done"]_vars

\* main has returned after 1000 iterations of which some were voided
C35_Witness ==
    /\ pc = "done"
    /\ run.voided > 0
    /\ run.updates = EPISODES - run.voided

(***************************************************************************)
(* Static paths (StaticSpec).                                              *)
(***************************************************************************)
\* the rules install_static_paths puts on the switches
StaticRulesOn(fl) ==
    {r \in UNION {fl[d] : d \in StaticSwitches} : r.priority = STATIC_PRIORITY}

\* C37: install_static_paths is called at most once over all connect events,
\* by the connect event that takes the registered switches from 7 to 8, and
\* from then on the flag is up: no later connect event calls it, a reconnect
\* included, also when the call aborted for a missing switch.  The static
\* rules are there exactly when the one call did not abort.
C37_StaticPathsOnce ==
    /\ [](Len(install_calls) <= 1)
    /\ [](paths_installed <=> Len(install_calls) = 1)
    /\ [](Cardinality(switches) >= ALL_SWITCHES => paths_installed)
    /\ [](StaticRulesOn(static_flows) # {} <=>
            (install_calls # <<>> /\ install_calls[1].installed))
    /\ [][install_calls' # install_calls =>
            /\ Cardinality(switches) = ALL_SWITCHES - 1
            /\ Cardinality(switches') = ALL_SWITCHES]_vars

\* the one call aborted, a required switch was missing; one of the 8
\* switches has connected again since and nothing was installed
C37_Witness ==
    /\ Len(install_calls) = 1
    /\ ~install_calls[1].installed
    /\ Cardinality(switches) = ALL_SWITCHES
    /\ connects > install_calls[1].at
    /\ StaticRulesOn(static_flows) = {}

(***************************************************************************)
(* Packet counters of the monitoring switch (MonitorSpec).                 *)
(***************************************************************************)
\* C38: for every datapath 'out' never exceeds 'in', 'out' grows only at the
\* end of a handler run that has counted 'in', and every line the monitor
\* logs has sent <= received and loss 0.
C38_OutNeverExceedsIn ==
    /\ [](\A k \in DOMAIN pkt_count : pkt_count[k].out <= pkt_count[k].in)
    /\ [](last_report.loss = 0 /\ last_report.sent <= last_report.received)
    /\ [][\A k \in DOMAIN pkt_count :
            (k \in DOMAIN pkt_count' /\ pkt_count'[k].out # pkt_count[k].out)
                => /\ pkt_count'[k].out = pkt_count[k].out + 1
                   /\ handler.key = k
                   /\ pkt_count[k].in > pkt_count[k].out]_vars

\* the monitor has logged a datapath that has forwarded a packet to a known
\* port and flooded another: sent 1, received 2, loss 0
C38_Witness ==
    /\ last_report.dpid = DpidKey(1)
    /\ last_report.sent = 1
    /\ last_report.received = 2
    /\ last_report.loss = 0
    /\ pkt_count[DpidKey(1)].out = 1

\* C9: epsilon never grows from one step to the next and never falls below
\* EPSILON_END.
C9_EpsilonFloor ==
    [][epsilon' <= epsilon /\ epsilon' >= EPSILON_END]_vars

====
